---- MODULE Spec2Model ----
(***************************************************************************)
(* Model of src/parser.rs of ttf-parser: the value decoding capability     *)
(* (FromData), the bound-checked reader (Stream), the trusted reader       *)
(* (SafeStream) and the lazy array view (LazyArray).                       *)
(*                                                                         *)
(* Byte offsets are 0-based as in the source; TLA+ sequences are 1-based,  *)
(* so byte i of a buffer d is d[i + 1].                                    *)
(* A u32 does not fit the model checker's integers, so a decoded 32-bit    *)
(* value is kept as its two 16-bit halves [hi, lo], denoting               *)
(* hi * 2^16 + lo.                                                         *)
(* usize is taken as 64 bits wide: the cursor cap MaxOffset keeps every    *)
(* usize sum far below 2^64, so usize arithmetic never wraps in the model. *)
(***************************************************************************)
EXTENDS Integers, Sequences, FiniteSets, TLC

VARIABLES
    data,      \* Stream.data: the borrowed byte buffer
    offset,    \* Stream.offset: the cursor
    last,      \* the last Stream operation: its inputs and what it returned
    arr,       \* a LazyArray: [data |-> bytes, T |-> element type]
    alast,     \* the last LazyArray operation: its inputs and what it returned
    iter,      \* a LazyArrayIter over arr: [offset |-> index of the next element]
    ilog,      \* what the calls of next() on iter have returned so far
    safe,      \* a SafeStream: [data |-> window, offset |-> cursor]
    slast      \* the last SafeStream operation: its inputs and what it returned

vars == <<data, offset, last, arr, alast, iter, ilog, safe, slast>>

----------------------------------------------------------------------------
(* Bounds of the model *)

\* longest Stream buffer
MaxLen == 4
\* cap on the cursor (skips and failed reads carry it beyond the buffer)
MaxOffset == 7
\* largest argument of skip_len and read_bytes
MaxBytes == 3
\* largest small element count of read_array
MaxCount == 2
\* longest LazyArray byte view
MaxArrBytes == 5
\* calls of next() made after the iterator reported its end
MaxNones == 2
\* longest window handed to a SafeStream
MaxSafeLen == 5

\* byte values the Stream buffers are drawn from (zero and sign-bit-set)
ByteVals == {0, 255}
\* two buffers read in the scenarios of the specification
ExampleBuffers == {<<0, 42, 1, 0>>, <<0, 0, 0, 5>>}
\* byte values the LazyArray views are drawn from
ArrByteVals == {0, 1, 255}

RECURSIVE SeqsUpTo(_, _)
SeqsUpTo(S, n) ==
    IF n = 0 THEN {<<>>}
    ELSE LET shorter == SeqsUpTo(S, n - 1)
         IN  shorter \cup {Append(s, b) : s \in {t \in shorter : Len(t) = n - 1}, b \in S}

----------------------------------------------------------------------------
(* Value decoding capability: FromData *)

Types == {"u8", "i8", "u16", "i16", "u32", "Offset32", "OptOffset32"}

\* std::mem::size_of::<T>()
SizeOf(T) ==
    CASE T \in {"u8", "i8"}    -> 1
      [] T \in {"u16", "i16"}  -> 2
      [] T \in {"u32", "Offset32"} -> 4
      [] T = "OptOffset32"     -> 8

\* FromData::raw_size, overridden for Option<Offset32>
RawSize(T) == IF T = "OptOffset32" THEN SizeOf("Offset32") ELSE SizeOf(T)

\* `x as i8`, `x as i16`: two's complement reinterpretation
AsSigned(x, bits) == IF x >= 2 ^ (bits - 1) THEN x - 2 ^ bits ELSE x

\* the mutant: the two bytes are combined low byte first
U16AtLittleEndian(d, i) == d[i + 2] * 256 + d[i + 1]

\* (d[0] as u16) << 8 | d[1] as u16, on the bytes at 0-based i, i + 1
U16At(d, i) == d[i + 1] * 256 + d[i + 2]

\* SafeStream::new
SafeStreamNew(d) == [data |-> d, offset |-> 0]

\* &self.data[start..end]: panics when the range is not inside the slice
Index(d, start, end) ==
    IF start <= end /\ end <= Len(d)
    THEN [panic |-> FALSE, bytes |-> SubSeq(d, start + 1, end)]
    ELSE [panic |-> TRUE, bytes |-> <<>>]

\* FromData::parse for u8, i8, u16, i16, u32: reads s.data[0 ..], not s.offset
ParsePrim(T, s) ==
    LET d == s.data
    IN  IF Len(d) < SizeOf(T) THEN [panic |-> TRUE, val |-> <<>>]
        ELSE [panic |-> FALSE,
              val |-> CASE T = "u8"  -> d[1]
                        [] T = "i8"  -> AsSigned(d[1], 8)
                        [] T = "u16" -> U16At(d, 0)
                        [] T = "i16" -> AsSigned(U16At(d, 0), 16)
                        [] T = "u32" -> [hi |-> U16At(d, 0), lo |-> U16At(d, 2)]]

\* SafeStream::read::<T> for a primitive T: [panic, val, s] with s the reader after
SafeStreamRead(s, T) ==
    LET start == s.offset
        end   == s.offset + SizeOf(T)
        w     == Index(s.data, start, end)
        s2    == [s EXCEPT !.offset = end]
    IN  IF w.panic THEN [panic |-> TRUE, val |-> <<>>, s |-> s2]
        ELSE LET p == ParsePrim(T, SafeStreamNew(w.bytes))
             IN  [panic |-> p.panic, val |-> p.val, s |-> s2]

\* the mutant: the optional offset is present whatever its value
ParseZeroOffsetIsSome(T, s) ==
    CASE T \in {"Offset32", "OptOffset32"} ->
           LET r == SafeStreamRead(s, "u32")
           IN  IF r.panic THEN [panic |-> TRUE, val |-> <<>>]
               ELSE [panic |-> FALSE,
                     val |-> IF T = "Offset32" THEN r.val
                             ELSE [some |-> TRUE, off |-> r.val]]
      [] OTHER -> ParsePrim(T, s)

\* FromData::parse for every supported T
Parse(T, s) ==
    CASE T = "Offset32" ->
           LET r == SafeStreamRead(s, "u32")
           IN  [panic |-> r.panic, val |-> r.val]
      [] T = "OptOffset32" ->
           LET r == SafeStreamRead(s, "u32")
           IN  IF r.panic THEN [panic |-> TRUE, val |-> <<>>]
               ELSE [panic |-> FALSE,
                     val |-> IF r.val # [hi |-> 0, lo |-> 0]
                             THEN [some |-> TRUE, off |-> r.val]
                             ELSE [some |-> FALSE, off |-> [hi |-> 0, lo |-> 0]]]
      [] OTHER -> ParsePrim(T, s)

----------------------------------------------------------------------------
(* Checked reader: Stream *)

\* the mutant: a range that starts after its end is an empty window
SliceGetClampsStart(d, start, end) ==
    IF end <= Len(d)
    THEN [some |-> TRUE, bytes |-> IF start >= end THEN <<>> ELSE SubSeq(d, start + 1, end)]
    ELSE [some |-> FALSE, bytes |-> <<>>]

\* slice.get(start..end): None unless start <= end <= len
SliceGet(d, start, end) ==
    IF start <= end /\ end <= Len(d)
    THEN [some |-> TRUE, bytes |-> SubSeq(d, start + 1, end)]
    ELSE [some |-> FALSE, bytes |-> <<>>]

\* the mutant: indexing &data[range] instead of data.get(range)
GetDataIndexing(d, start, end) ==
    LET r == SliceGet(d, start, end)
    IN  IF r.some
        THEN [kind |-> "ok", bytes |-> r.bytes, end |-> -1, len |-> -1]
        ELSE [kind |-> "panic", bytes |-> <<>>, end |-> -1, len |-> -1]

\* the mutant: a bound check that lets the range end one byte past the buffer
GetDataOffByOne(d, start, end) ==
    IF start <= end /\ end <= Len(d) + 1
    THEN [kind |-> "ok", end |-> -1, len |-> -1,
          bytes |-> SubSeq(d, start + 1, IF end <= Len(d) THEN end ELSE Len(d))]
    ELSE [kind |-> "bound", bytes |-> <<>>, end |-> end, len |-> Len(d)]

\* the mutant: the failure carries the start of the range
GetDataReportsStart(d, start, end) ==
    LET r == SliceGet(d, start, end)
    IN  IF r.some
        THEN [kind |-> "ok", bytes |-> r.bytes, end |-> -1, len |-> -1]
        ELSE [kind |-> "bound", bytes |-> <<>>, end |-> start, len |-> Len(d)]

\* Stream::get_data: the window, or Error::ReadOutOfBounds(range.end, data.len())
GetData(d, start, end) ==
    LET r == SliceGet(d, start, end)
    IN  IF r.some
        THEN [kind |-> "ok", bytes |-> r.bytes, end |-> -1, len |-> -1]
        ELSE [kind |-> "bound", bytes |-> <<>>, end |-> end, len |-> Len(d)]

\* what an operation leaves in `last`: pre the cursor before it, start the
\* offset it reads from, n the bytes it asks for, kind its outcome ("ok",
\* "bound", "decode" or "panic"), (end, len) the payload of a bound failure,
\* val the value returned, [lo, hi) the bytes of the buffer it read
Did(op, T, pre, start, count, n, kind, end, len, val, lo, hi) ==
    [op |-> op, T |-> T, pre |-> pre, start |-> start, count |-> count, n |-> n,
     kind |-> kind, end |-> end, len |-> len, val |-> val, lo |-> lo, hi |-> hi]

\* what a LazyArray operation leaves in `alast`
ADid(op, index, k, tgt, r) ==
    [op |-> op, index |-> index, k |-> k, tgt |-> tgt, ret |-> r]

\* what a SafeStream operation leaves in `slast`: pre the cursor before it,
\* n the bytes it consumes, sum the bytes the operations before it consumed,
\* val the value returned
SDid(op, T, pre, n, sum, panic, val) ==
    [op |-> op, T |-> T, pre |-> pre, n |-> n, sum |-> sum, panic |-> panic, val |-> val]

\* LazyArray::into_iter: the iterator starts at element 0
IntoIterNew == [offset |-> 0]

\* nothing returned yet: rets the results of the calls of next() in order,
\* again whether an earlier iteration of the same view ran to its end, and
\* prev the elements that iteration yielded
ILogNew(again, prev) == [rets |-> <<>>, again |-> again, prev |-> prev]

\* the components a specification leaves alone, as constructed
StreamIdle ==
    /\ data = <<>>
    /\ offset = 0
    /\ last = Did("new", "-", 0, 0, 0, 0, "ok", -1, -1, <<>>, 0, 0)
ArrayIdle ==
    /\ arr = [data |-> <<>>, T |-> "u8"]
    /\ alast = ADid("new", 0, 0, 0, <<>>)
IterIdle ==
    /\ iter = IntoIterNew
    /\ ilog = ILogNew(FALSE, <<>>)
SafeIdle ==
    /\ safe = SafeStreamNew(<<>>)
    /\ slast = SDid("new", "-", 0, 0, 0, FALSE, <<>>)

\* the result of decoding window r (a GetData result) as T, read from `start`
Decoded(op, T, pre, start, r) ==
    IF r.kind # "ok"
    THEN Did(op, T, pre, start, 0, RawSize(T), r.kind, r.end, r.len, <<>>, 0, 0)
    ELSE LET p == Parse(T, SafeStreamNew(r.bytes))
         IN  Did(op, T, pre, start, 0, RawSize(T), IF p.panic THEN "panic" ELSE "ok",
                 -1, -1, p.val, start, start + Len(r.bytes))

\* Stream::new
Init ==
    /\ data \in SeqsUpTo(ByteVals, MaxLen) \cup ExampleBuffers
    /\ offset = 0
    /\ last = Did("new", "-", 0, 0, 0, 0, "ok", -1, -1, <<>>, 0, 0)
    /\ ArrayIdle
    /\ IterIdle
    /\ SafeIdle

\* Stream::at_end
AtEnd ==
    /\ last' = Did("at_end", "-", offset, offset, 0, 0, "ok", -1, -1, offset = Len(data), 0, 0)
    /\ UNCHANGED <<data, offset, arr, alast, iter, ilog, safe, slast>>

\* the mutant: the cursor is rewound instead of moved to the end
JumpToEndRewinds ==
    /\ offset' = 0
    /\ last' = Did("jump_to_end", "-", offset, offset, 0, 0, "ok", -1, -1, <<>>, 0, 0)
    /\ UNCHANGED <<data, arr, alast, iter, ilog, safe, slast>>

\* Stream::jump_to_end
JumpToEnd ==
    /\ offset' = Len(data)
    /\ last' = Did("jump_to_end", "-", offset, offset, 0, 0, "ok", -1, -1, <<>>, 0, 0)
    /\ UNCHANGED <<data, arr, alast, iter, ilog, safe, slast>>

\* Stream::offset
Offset ==
    /\ last' = Did("offset", "-", offset, offset, 0, 0, "ok", -1, -1, offset, 0, 0)
    /\ UNCHANGED <<data, offset, arr, alast, iter, ilog, safe, slast>>

\* Stream::tail
StreamTail ==
    /\ LET r == GetData(data, offset, Len(data))
       IN  last' = Did("tail", "-", offset, offset, 0, 0, r.kind, r.end, r.len, r.bytes,
                       IF r.kind = "ok" THEN offset ELSE 0,
                       IF r.kind = "ok" THEN Len(data) ELSE 0)
    /\ UNCHANGED <<data, offset, arr, alast, iter, ilog, safe, slast>>

\* Stream::skip::<T>
Skip(T) ==
    /\ offset + RawSize(T) <= MaxOffset
    /\ offset' = offset + RawSize(T)
    /\ last' = Did("skip", T, offset, offset, 0, RawSize(T), "ok", -1, -1, <<>>, 0, 0)
    /\ UNCHANGED <<data, arr, alast, iter, ilog, safe, slast>>

\* the mutant: len counts 16-bit elements instead of bytes
SkipLenOfU16(len) ==
    /\ offset + len * 2 <= MaxOffset
    /\ offset' = offset + len * 2
    /\ last' = Did("skip_len", "-", offset, offset, len, len, "ok", -1, -1, <<>>, 0, 0)
    /\ UNCHANGED <<data, arr, alast, iter, ilog, safe, slast>>

\* Stream::skip_len(len)
SkipLen(len) ==
    /\ offset + len <= MaxOffset
    /\ offset' = offset + len
    /\ last' = Did("skip_len", "-", offset, offset, len, len, "ok", -1, -1, <<>>, 0, 0)
    /\ UNCHANGED <<data, arr, alast, iter, ilog, safe, slast>>

\* the mutant: the cursor moves one byte too far
ReadAdvanceOffByOne(start, size) == start + size + 1

\* `self.offset += T::raw_size(); let end = self.offset;` in Stream::read
ReadAdvance(start, size) == start + size

\* Stream::read::<T>
Read(T) ==
    LET start == offset
        end   == ReadAdvance(start, RawSize(T))
    IN  /\ end <= MaxOffset
        /\ offset' = end
        /\ last' = Decoded("read", T, start, start, GetData(data, start, end))
        /\ UNCHANGED <<data, arr, alast, iter, ilog, safe, slast>>

\* sizes and outcomes of the fallible decoders: TryFromData has no
\* implementation in this file, so try_parse is any outcome over any raw size
TrySizes == {1, 2, 4}
TryOutcomes == {"ok", "decode"}

\* Stream::try_read::<T>
TryRead(size, outcome) ==
    LET start == offset
        end   == offset + size
        r     == GetData(data, start, end)
    IN  /\ end <= MaxOffset
        /\ offset' = end
        /\ last' = IF r.kind # "ok"
                   THEN Did("try_read", "-", start, start, 0, size, r.kind, r.end, r.len, <<>>, 0, 0)
                   ELSE Did("try_read", "-", start, start, 0, size, outcome, -1, -1, <<>>,
                            start, start + Len(r.bytes))
        /\ UNCHANGED <<data, arr, alast, iter, ilog, safe, slast>>

\* the mutant: read_at accepts a window that ends one byte past the buffer
ReadAtGetOffByOne(d, start, end) ==
    IF start <= end /\ end <= Len(d) + 1
    THEN [kind |-> "ok", end |-> -1, len |-> -1,
          bytes |-> SubSeq(d, start + 1, IF end <= Len(d) THEN end ELSE Len(d))]
    ELSE [kind |-> "bound", bytes |-> <<>>, end |-> end, len |-> Len(d)]

\* `data.get(start..end).ok_or_else(|| Error::ReadOutOfBounds(end, data.len()))`
\* in Stream::read_at
ReadAtGet(d, start, end) ==
    LET w == SliceGet(d, start, end)
    IN  IF w.some
        THEN [kind |-> "ok", bytes |-> w.bytes, end |-> -1, len |-> -1]
        ELSE [kind |-> "bound", bytes |-> <<>>, end |-> end, len |-> Len(d)]

\* Stream::read_at::<T>(data, offset): static, on the same buffer
ReadAt(T, off) ==
    LET start == off
        end   == off + RawSize(T)
        r     == data
    IN  /\ last' = Decoded("read_at", T, offset, start, ReadAtGet(r, start, end))
        /\ UNCHANGED <<data, offset, arr, alast, iter, ilog, safe, slast>>

\* the body of Stream::read_bytes: the new cursor and the result
ReadBytesResult(op, T, count, len) ==
    LET r == GetData(data, offset, offset + len)
    IN  Did(op, T, offset, offset, count, len, r.kind, r.end, r.len,
            IF r.kind # "ok" THEN <<>>
            ELSE IF op = "read_array" THEN [data |-> r.bytes, T |-> T] ELSE r.bytes,
            IF r.kind = "ok" THEN offset ELSE 0,
            IF r.kind = "ok" THEN offset + len ELSE 0)

\* Stream::read_bytes(len)
ReadBytes(len) ==
    /\ offset + len <= MaxOffset
    /\ offset' = offset + len
    /\ last' = ReadBytesResult("read_bytes", "-", 0, len)
    /\ UNCHANGED <<data, arr, alast, iter, ilog, safe, slast>>

\* `let len = len.to_usize() * T::raw_size(); ... len as u32`:
\* (count * size) mod 2^32, computed as (count mod (2^32 / size)) * size.
\* Counts are below 2^31, so only size 4 can wrap.
ArrayByteLen(count, size) ==
    IF size = 4 THEN (count % 2 ^ 30) * 4 ELSE count * size

\* element counts: small ones, and u32 counts at which count * 4 passes 2^32
Counts == (0 .. MaxCount) \cup {2 ^ 30, 2 ^ 30 + 1}

\* the counts whose byte length keeps the cursor under the cap
CountFits(count, size) ==
    /\ (size = 4 => (count % 2 ^ 30) * 4 + offset <= MaxOffset)
    /\ (size # 4 => count <= MaxOffset /\ count * size + offset <= MaxOffset)

\* Stream::read_array::<T, L>(len)
ReadArray(T, count) ==
    /\ CountFits(count, RawSize(T))
    /\ LET len == ArrayByteLen(count, RawSize(T))
       IN  /\ offset' = offset + len
           /\ last' = ReadBytesResult("read_array", T, count, len)
    /\ UNCHANGED <<data, arr, alast, iter, ilog, safe, slast>>

\* Stream::read_f2_14: read::<i16>()? as f32 / 16384.0, kept as a fraction
ReadF2_14 ==
    LET start == offset
        end   == ReadAdvance(start, RawSize("i16"))
        d     == Decoded("read_f2_14", "i16", start, start, GetData(data, start, end))
    IN  /\ end <= MaxOffset
        /\ offset' = end
        /\ last' = IF d.kind = "ok"
                   THEN [d EXCEPT !.val = [num |-> d.val, den |-> 16384]]
                   ELSE d
        /\ UNCHANGED <<data, arr, alast, iter, ilog, safe, slast>>

Next ==
    \/ AtEnd
    \/ JumpToEnd
    \/ Offset
    \/ StreamTail
    \/ \E T \in Types : Skip(T)
    \/ \E len \in 0 .. MaxBytes : SkipLen(len)
    \/ \E T \in Types : Read(T)
    \/ \E size \in TrySizes, outcome \in TryOutcomes : TryRead(size, outcome)
    \/ \E T \in Types, off \in 0 .. MaxOffset : ReadAt(T, off)
    \/ \E len \in 0 .. MaxBytes : ReadBytes(len)
    \/ \E T \in Types, count \in Counts : ReadArray(T, count)
    \/ ReadF2_14

Spec == Init /\ [][Next]_vars

----------------------------------------------------------------------------
(* Lazy array view: LazyArray *)

\* LazyArray::new
LazyArrayNew(d, T) == [data |-> d, T |-> T]

\* the mutant: a trailing partial element counts as an element
LazyLenRoundedUp(a) == (Len(a.data) + RawSize(a.T) - 1) \div RawSize(a.T)

\* LazyArray::len
LazyLen(a) == Len(a.data) \div RawSize(a.T)

\* LazyArray::is_empty
LazyIsEmpty(a) == LazyLen(a) = 0

\* LazyArray::at: [panic, val, lo, hi], [lo, hi) the bytes of the view it decodes
LazyAt(a, index) ==
    LET start == index * RawSize(a.T)
        end   == start + RawSize(a.T)
        w     == Index(a.data, start, end)
    IN  IF w.panic THEN [panic |-> TRUE, val |-> <<>>, lo |-> start, hi |-> end]
        ELSE LET p == Parse(a.T, SafeStreamNew(w.bytes))
             IN  [panic |-> p.panic, val |-> p.val, lo |-> start, hi |-> end]

\* the mutant: an off-by-one bound check in get
GetInBoundsInclusive(index, len) == index <= len

\* `index.to_usize() < self.len()` in LazyArray::get
GetInBounds(index, len) == index < len

\* LazyArray::get: [some, panic, val, lo, hi]
LazyGet(a, index) ==
    IF GetInBounds(index, LazyLen(a))
    THEN LET e == LazyAt(a, index)
         IN  [some |-> ~e.panic, panic |-> e.panic, val |-> e.val, lo |-> e.lo, hi |-> e.hi]
    ELSE [some |-> FALSE, panic |-> FALSE, val |-> <<>>, lo |-> 0, hi |-> 0]

\* LazyArray::last
LazyLast(a) ==
    IF ~LazyIsEmpty(a)
    THEN LazyGet(a, LazyLen(a) - 1)
    ELSE [some |-> FALSE, panic |-> FALSE, val |-> <<>>, lo |-> 0, hi |-> 0]

\* std::cmp::Ordering of x against y
Cmp(x, y) == IF x < y THEN "Less" ELSE IF x = y THEN "Equal" ELSE "Greater"

\* the caller's ordering function f: it compares the key v div k of an
\* element v with a target (k = 1 compares the whole element)
OrderingFn(k, tgt, v) == Cmp(v \div k, tgt)

\* the mutant: the base moves only past elements that compare Less
NextBaseOnLessOnly(cmp, base, mid) == IF cmp = "Less" THEN mid ELSE base

\* `base = if cmp == Ordering::Greater { base } else { mid };`
NextBase(cmp, base, mid) == IF cmp = "Greater" THEN base ELSE mid

\* the mutant: the probe lands one element too far
ProbeIndexOffByOne(base, half) == base + half + 1

\* `let mid = base + half;`
ProbeIndex(base, half) == base + half

\* the `while size > 1` loop of binary_search_by: [panic, base, size, probes],
\* probes the iterations in order, each with the base and size it started
\* from, the index mid it handed to at() and the bytes [lo, hi) at() decoded
RECURSIVE SearchLoop(_, _, _, _, _, _)
SearchLoop(a, k, tgt, base, size, probes) ==
    IF size > 1
    THEN LET half == size \div 2
             mid  == ProbeIndex(base, half)
             e    == LazyAt(a, mid)
             done == Append(probes, [base |-> base, size |-> size, mid |-> mid,
                                     lo |-> e.lo, hi |-> e.hi])
         IN  IF e.panic
             THEN [panic |-> TRUE, base |-> base, size |-> size, probes |-> done]
             ELSE SearchLoop(a, k, tgt, NextBase(OrderingFn(k, tgt, e.val), base, mid),
                             size - half, done)
    ELSE [panic |-> FALSE, base |-> base, size |-> size, probes |-> probes]

\* the mutant: the candidate is returned unless the target is below it
FoundIfNotGreater(cmp) == cmp # "Greater"

\* `if cmp == Ordering::Equal { Some(..) } else { None }` on the candidate
FoundIfEqual(cmp) == cmp = "Equal"

\* LazyArray::binary_search_by: [some, panic, val, idx, size, lo, hi, probes],
\* idx the final candidate index base, [lo, hi) the bytes decoded for it and
\* size the size the loop ended with
BinarySearchBy(a, k, tgt) ==
    LET size == LazyLen(a)
    IN  IF size = 0
        THEN [some |-> FALSE, panic |-> FALSE, val |-> <<>>, idx |-> -1, size |-> 0,
              lo |-> 0, hi |-> 0, probes |-> <<>>]
        ELSE LET l == SearchLoop(a, k, tgt, 0, size, <<>>)
                 e == LazyAt(a, l.base)
             IN  IF l.panic \/ e.panic
                 THEN [some |-> FALSE, panic |-> TRUE, val |-> <<>>, idx |-> l.base,
                       size |-> l.size, lo |-> e.lo, hi |-> e.hi, probes |-> l.probes]
                 ELSE [some |-> FoundIfEqual(OrderingFn(k, tgt, e.val)), panic |-> FALSE,
                       val |-> e.val, idx |-> l.base, size |-> l.size,
                       lo |-> e.lo, hi |-> e.hi, probes |-> l.probes]

\* element types whose decoded value is one integer: the ones searched
SearchTypes == {"u8", "i8", "u16", "i16"}
\* key divisors and targets of the ordering functions tried
KeyDivs == {1, 256}
Targets == {-1, 0, 1, 2, 255, 256}

\* a LazyArray over any byte view
InitArr ==
    /\ StreamIdle
    /\ arr \in {LazyArrayNew(d, T) : d \in SeqsUpTo(ArrByteVals, MaxArrBytes), T \in Types}
    /\ alast = ADid("new", 0, 0, 0, <<>>)
    /\ IterIdle
    /\ SafeIdle

ArrLen ==
    /\ alast' = ADid("len", 0, 0, 0, LazyLen(arr))
    /\ UNCHANGED <<data, offset, last, arr, iter, ilog, safe, slast>>

ArrIsEmpty ==
    /\ alast' = ADid("is_empty", 0, 0, 0, LazyIsEmpty(arr))
    /\ UNCHANGED <<data, offset, last, arr, iter, ilog, safe, slast>>

ArrGet(index) ==
    /\ alast' = ADid("get", index, 0, 0, LazyGet(arr, index))
    /\ UNCHANGED <<data, offset, last, arr, iter, ilog, safe, slast>>

ArrLast ==
    /\ alast' = ADid("last", 0, 0, 0, LazyLast(arr))
    /\ UNCHANGED <<data, offset, last, arr, iter, ilog, safe, slast>>

ArrBinarySearchBy(k, tgt) ==
    /\ arr.T \in SearchTypes
    /\ alast' = ADid("binary_search_by", 0, k, tgt, BinarySearchBy(arr, k, tgt))
    /\ UNCHANGED <<data, offset, last, arr, iter, ilog, safe, slast>>

NextArr ==
    \/ ArrLen
    \/ ArrIsEmpty
    \/ \E index \in 0 .. MaxArrBytes + 1 : ArrGet(index)
    \/ ArrLast
    \/ \E k \in KeyDivs, tgt \in Targets : ArrBinarySearchBy(k, tgt)

SpecArr == InitArr /\ [][NextArr]_vars

----------------------------------------------------------------------------
(* Iteration of a lazy array view: LazyArrayIter *)

\* Option::None as LazyGet returns it
NoElement == [some |-> FALSE, panic |-> FALSE, val |-> <<>>, lo |-> 0, hi |-> 0]

\* the mutant: the iterator stops one element early
IterAtEndEarly(off, len) == off + 1 >= len

\* `self.offset as usize == self.data.len()` in LazyArrayIter::next
IterAtEnd(off, len) == off = len

\* LazyArrayIter::next: [iter, ret], the iterator after the call and its result
IterNextResult(a, it) ==
    IF IterAtEnd(it.offset, LazyLen(a))
    THEN [iter |-> it, ret |-> NoElement]
    ELSE LET index == it.offset
         IN  [iter |-> [it EXCEPT !.offset = it.offset + 1], ret |-> LazyGet(a, index)]

\* the elements an iteration has yielded: its results that were Some
RECURSIVE Yielded(_)
Yielded(rets) ==
    IF rets = <<>> THEN <<>>
    ELSE IF Head(rets).some THEN <<Head(rets)>> \o Yielded(Tail(rets))
    ELSE Yielded(Tail(rets))

\* an iteration has run to its end once next() has returned None
RanToEnd(rets) == \E j \in 1 .. Len(rets) : ~rets[j].some

\* a LazyArray over any byte view, and a fresh iterator over it
InitIter ==
    /\ StreamIdle
    /\ arr \in {LazyArrayNew(d, T) : d \in SeqsUpTo(ArrByteVals, MaxArrBytes), T \in Types}
    /\ alast = ADid("new", 0, 0, 0, <<>>)
    /\ IterIdle
    /\ SafeIdle

\* LazyArray::into_iter, on the same (Copy) view: a fresh iteration
IntoIter ==
    /\ iter' = IntoIterNew
    /\ ilog' = IF RanToEnd(ilog.rets)
               THEN ILogNew(TRUE, Yielded(ilog.rets))
               ELSE ILogNew(ilog.again, ilog.prev)
    /\ UNCHANGED <<data, offset, last, arr, alast, safe, slast>>

\* LazyArrayIter::next
IterNext ==
    /\ Len(ilog.rets) < LazyLen(arr) + MaxNones
    /\ LET r == IterNextResult(arr, iter)
       IN  /\ iter' = r.iter
           /\ ilog' = [ilog EXCEPT !.rets = Append(@, r.ret)]
    /\ UNCHANGED <<data, offset, last, arr, alast, safe, slast>>

NextIter ==
    \/ IntoIter
    \/ IterNext

SpecIter == InitIter /\ [][NextIter]_vars

----------------------------------------------------------------------------
(* Trusted reader: SafeStream *)

\* SafeStream::read::<T>: [panic, val, s], s the reader after the call
SafeStreamReadAny(s, T) ==
    LET start == s.offset
        end   == s.offset + RawSize(T)
        w     == Index(s.data, start, end)
        s2    == [s EXCEPT !.offset = end]
    IN  IF w.panic THEN [panic |-> TRUE, val |-> <<>>, s |-> s2]
        ELSE LET p == Parse(T, SafeStreamNew(w.bytes))
             IN  [panic |-> p.panic, val |-> p.val, s |-> s2]

\* SafeStream::read_u24: d[0], d[1], d[2] of the whole window
SafeStreamReadU24(s) ==
    LET d  == s.data
        s2 == [s EXCEPT !.offset = s.offset + 3]
    IN  IF Len(d) < 3 THEN [panic |-> TRUE, val |-> <<>>, s |-> s]
        ELSE [panic |-> FALSE, val |-> d[1] * 65536 + d[2] * 256 + d[3], s |-> s2]

\* SafeStream::new over any window
InitSafe ==
    /\ StreamIdle
    /\ ArrayIdle
    /\ IterIdle
    /\ safe \in {SafeStreamNew(d) : d \in SeqsUpTo(ByteVals, MaxSafeLen)}
    /\ slast = SDid("new", "-", 0, 0, 0, FALSE, <<>>)

\* SafeStream::skip::<T>
SafeSkip(T) ==
    /\ ~slast.panic
    /\ safe.offset + RawSize(T) <= MaxOffset
    /\ safe' = [safe EXCEPT !.offset = safe.offset + RawSize(T)]
    /\ slast' = SDid("skip", T, safe.offset, RawSize(T), slast.sum + slast.n, FALSE, <<>>)
    /\ UNCHANGED <<data, offset, last, arr, alast, iter, ilog>>

\* SafeStream::read::<T>; a panic ends the use of the reader
SafeRead(T) ==
    /\ ~slast.panic
    /\ safe.offset + RawSize(T) <= MaxOffset
    /\ LET r == SafeStreamReadAny(safe, T)
       IN  /\ safe' = r.s
           /\ slast' = SDid("read", T, safe.offset, RawSize(T), slast.sum + slast.n, r.panic, r.val)
    /\ UNCHANGED <<data, offset, last, arr, alast, iter, ilog>>

\* SafeStream::read_u24
SafeReadU24 ==
    /\ ~slast.panic
    /\ safe.offset + 3 <= MaxOffset
    /\ LET r == SafeStreamReadU24(safe)
       IN  /\ safe' = r.s
           /\ slast' = SDid("read_u24", "-", safe.offset, 3, slast.sum + slast.n, r.panic, r.val)
    /\ UNCHANGED <<data, offset, last, arr, alast, iter, ilog>>

NextSafe ==
    \/ \E T \in Types : SafeSkip(T)
    \/ \E T \in Types : SafeRead(T)
    \/ SafeReadU24

SpecSafe == InitSafe /\ [][NextSafe]_vars

----------------------------------------------------------------------------
(* The core as a whole: a checked reader, a lazy array view or an iteration.
   The three share no state, so a behaviour exercises one of them and leaves
   the others as constructed. *)

\* no operation has been applied to the component yet
StreamUnused == data = <<>> /\ offset = 0 /\ last.op = "new"
ArrayUnused == arr = [data |-> <<>>, T |-> "u8"] /\ alast.op = "new"
IterUnused == iter = IntoIterNew /\ ilog.rets = <<>> /\ ~ilog.again

InitCore ==
    \/ Init
    \/ InitArr
    \/ InitIter

NextCore ==
    \/ ArrayUnused /\ IterUnused /\ Next
    \/ StreamUnused /\ IterUnused /\ NextArr
    \/ StreamUnused /\ alast.op = "new" /\ NextIter

SpecCore == InitCore /\ [][NextCore]_vars

----------------------------------------------------------------------------
(* Properties of the checked reader, stated on the last operation *)

\* the Stream operations that read bytes at the cursor
CursorReads == {"read", "try_read", "read_bytes", "read_array", "read_f2_14"}

\* the raw sizes the specification states: 1 for u8/i8, 2 for u16/i16,
\* 4 for u32, Offset32 and Option<Offset32>
StatedRawSize(T) ==
    CASE T \in {"u8", "i8"}   -> 1
      [] T \in {"u16", "i16"} -> 2
      [] T \in {"u32", "Offset32", "OptOffset32"} -> 4

\* the bytes an operation asks for, as the specification states them:
\* raw_size::<T>() for the typed reads, the argument n otherwise
StatedRequest ==
    IF last.op \in {"read", "read_at", "read_f2_14"} THEN StatedRawSize(last.T) ELSE last.n

\* C1: when read, try_read, read_bytes, read_array or read_f2_14 fails with a
\* bound error, the cursor after the call equals the cursor before the call.
C1_FailedReadKeepsCursor ==
    (last.op \in CursorReads /\ last.kind = "bound") => offset = last.pre

C3_CursorNeverMovesBackward ==
    offset >= last.pre

\* C3 amended: no operation other than jump_to_end moves the cursor backward;
\* jump_to_end sets the cursor to the buffer length, which is a backward move
\* exactly when the cursor was beyond the buffer length before it.
C3_OnlyJumpToEndMovesBackward ==
    /\ last.op # "jump_to_end" => offset >= last.pre
    /\ last.op = "jump_to_end" =>
         /\ offset = Len(data)
         /\ (offset < last.pre) = (last.pre > Len(data))

\* jump_to_end called with the cursor beyond the end of the buffer
C3_Witness ==
    last.op = "jump_to_end" /\ last.pre > Len(data) /\ offset < last.pre

\* C4: a successful read, try_read, read_bytes, read_array, read_f2_14 or
\* read_at touches exactly the bytes [start, end) of the buffer, end <= L,
\* start the cursor (or the given offset) and end - start the bytes it asks
\* the buffer for; when end exceeds L it returns a bound failure and touches
\* no byte; no operation panics or touches a byte at index >= L.
C4_ReadsStayInsideBuffer ==
    LET L   == Len(data)
        end == last.start + StatedRequest
    IN  /\ last.kind # "panic"
        /\ last.hi <= L
        /\ last.op \in CursorReads \cup {"read_at"} =>
             /\ last.kind \in {"ok", "decode"} =>
                  last.lo = last.start /\ last.hi = end /\ end <= L
             /\ end > L => last.kind = "bound" /\ last.lo = 0 /\ last.hi = 0
        /\ (last.op = "read_bytes" /\ last.kind = "ok") =>
             last.val = SubSeq(data, last.start + 1, end)

\* a read whose window starts inside the buffer and ends beyond it
C4_Witness ==
    /\ last.op \in {"read", "read_at"} /\ last.kind = "bound"
    /\ last.start < Len(data) /\ last.start + StatedRawSize(last.T) > Len(data)

\* C5: every bound failure of a read carries (required_end, actual_length)
\* with required_end = the offset read from + the bytes requested and
\* actual_length = the buffer length.
C5_BoundFailurePayload ==
    (last.op \in CursorReads \cup {"read_at"} /\ last.kind = "bound") =>
        /\ last.end = last.start + StatedRequest
        /\ last.len = Len(data)

\* read::<u32>() with 2 bytes remaining fails reporting (cursor + 4, L)
C5_Witness ==
    /\ last.op = "read" /\ last.T = "u32" /\ last.kind = "bound"
    /\ Len(data) - last.pre = 2
    /\ last.end = last.pre + 4 /\ last.len = Len(data)

\* C9: a successful read_array::<T>(count) returns a view with len() = count
\* over exactly count * raw_size::<T>() bytes and advances the cursor by that
\* many bytes (count * raw_size is not reduced modulo 2^32).
C9_ReadArrayCoversCountElements ==
    (last.op = "read_array" /\ last.kind = "ok") =>
        LET S == StatedRawSize(last.T)
            n == Len(last.val.data)
        IN  /\ LazyLen(last.val) = last.count
            /\ n % S = 0 /\ n \div S = last.count
            /\ offset - last.pre = n

\* C10: every successful read::<T>() advances the cursor by exactly
\* raw_size::<T>() (1, 2 or 4), whatever bytes it decoded.
C10_ReadAdvancesByRawSize ==
    (last.op = "read" /\ last.kind = "ok") =>
        offset - last.pre = StatedRawSize(last.T)

\* a read of an absent optional offset, which still consumed 4 bytes
C10_Witness ==
    /\ last.op = "read" /\ last.T = "OptOffset32" /\ last.kind = "ok"
    /\ ~last.val.some
    /\ offset = last.pre + 4

----------------------------------------------------------------------------
(* Properties of the lazy array view, stated on the last operation *)

\* the indices of arr
ArrIndices == 0 .. LazyLen(arr) - 1

\* what the ordering function of the last search reports for element i
Reported(i) == OrderingFn(alast.k, alast.tgt, LazyAt(arr, i).val)

\* Less before Equal before Greater
Rank(c) == CASE c = "Less" -> 0 [] c = "Equal" -> 1 [] c = "Greater" -> 2

\* arr is non-decreasing under the ordering function of the last search
NonDecreasing ==
    \A i, j \in ArrIndices : i < j => Rank(Reported(i)) <= Rank(Reported(j))

\* the indices whose element the ordering function reports Equal
EqualIndices == {i \in ArrIndices : Reported(i) = "Equal"}

\* the last operation was a search of a non-decreasing array
SearchedSorted == alast.op = "binary_search_by" /\ NonDecreasing

\* C6: on a non-decreasing array of n >= 0 elements binary_search_by returns
\* the element the ordering function reports Equal when there is exactly one,
\* and absent when there is none.
C6_SearchFindsUniqueMatch ==
    SearchedSorted =>
        /\ ~alast.ret.panic
        /\ Cardinality(EqualIndices) = 1 =>
             /\ alast.ret.some
             /\ alast.ret.idx \in EqualIndices
             /\ alast.ret.val = LazyAt(arr, alast.ret.idx).val
        /\ EqualIndices = {} => ~alast.ret.some

\* a unique match found among at least three elements, not at index 0
C6_Witness ==
    /\ SearchedSorted /\ LazyLen(arr) >= 3
    /\ Cardinality(EqualIndices) = 1
    /\ alast.ret.some /\ alast.ret.idx > 0

\* C7 as stated: when several elements of a non-decreasing array compare
\* Equal, binary_search_by returns the one with the lowest index.
C7_SearchReturnsFirstEqual ==
    (SearchedSorted /\ Cardinality(EqualIndices) >= 2) =>
        /\ alast.ret.some
        /\ \A i \in EqualIndices : alast.ret.idx <= i

\* C7 amended: when several elements of a non-decreasing array compare Equal,
\* binary_search_by returns the last of them, the one with the highest index.
C7_SearchReturnsLastEqual ==
    (SearchedSorted /\ Cardinality(EqualIndices) >= 2) =>
        /\ alast.ret.some
        /\ alast.ret.idx \in EqualIndices
        /\ \A i \in EqualIndices : alast.ret.idx >= i
        /\ alast.ret.val = LazyAt(arr, alast.ret.idx).val

\* two Equal elements that differ in value: the one returned is the later
C7_Witness ==
    /\ SearchedSorted /\ Cardinality(EqualIndices) >= 2
    /\ alast.ret.some
    /\ \E i \in EqualIndices : i < alast.ret.idx /\ LazyAt(arr, i).val # alast.ret.val

\* C8: over N bytes with element raw size S, len() = N div S; get(i) is
\* present exactly when i < len() and then decodes bytes [i*S, i*S + S) of
\* the view; get(len()) and beyond is absent; the N mod S remainder bytes
\* are never read.
C8_LengthAndGet ==
    LET S == StatedRawSize(arr.T)
        N == Len(arr.data)
        i == alast.index
    IN  /\ alast.op = "len" => alast.ret = N \div S
        /\ alast.op = "get" =>
             /\ ~alast.ret.panic
             /\ alast.ret.some = (i < N \div S)
             /\ i < N \div S =>
                  /\ alast.ret.lo = i * S /\ alast.ret.hi = i * S + S
                  /\ alast.ret.hi <= (N \div S) * S
                  /\ alast.ret.val =
                       Parse(arr.T, SafeStreamNew(SubSeq(arr.data, i * S + 1, i * S + S))).val
             /\ i >= N \div S => alast.ret.lo = 0 /\ alast.ret.hi = 0

\* get(len()) on a view with remainder bytes: absent, nothing read
C8_Witness ==
    /\ alast.op = "get" /\ LazyLen(arr) >= 1
    /\ Len(arr.data) % RawSize(arr.T) # 0
    /\ alast.index = LazyLen(arr)
    /\ ~alast.ret.some

----------------------------------------------------------------------------
(* Properties of the offset value type *)

\* C11: 4 bytes decoded as an optional offset give absent when their
\* big-endian value is 0 and otherwise a present offset wrapping that value;
\* in both cases the read consumes exactly 4 bytes, the raw size of
\* Option<Offset32> and of Offset32.
C11_OptionalOffsetDecode ==
    /\ RawSize("OptOffset32") = 4 /\ RawSize("Offset32") = 4
    /\ (last.op = "read" /\ last.T = "OptOffset32" /\ last.kind = "ok") =>
         LET b == SubSeq(data, last.pre + 1, last.pre + 4)
             v == [hi |-> b[1] * 256 + b[2], lo |-> b[3] * 256 + b[4]]
         IN  /\ last.val.some = (v # [hi |-> 0, lo |-> 0])
             /\ last.val.some => last.val.off = v
             /\ offset = last.pre + 4

\* bytes 00 00 00 05 decoded as a present offset wrapping 5, 4 bytes consumed
C11_Witness ==
    /\ data = <<0, 0, 0, 5>>
    /\ last.op = "read" /\ last.T = "OptOffset32" /\ last.kind = "ok"
    /\ last.val.some /\ last.val.off = [hi |-> 0, lo |-> 5]
    /\ offset = 4

----------------------------------------------------------------------------
(* Properties of the iteration *)

\* C12: iterating a Lazy Array yields exactly len() elements, the k-th one
\* equal to get(k) for k = 0 .. len() - 1 in increasing order, then reports
\* the end on every further step (so the iteration terminates); a fresh
\* iteration of the same view yields the same sequence again.
C12_IterationYieldsEveryElementOnce ==
    LET n == Len(arr.data) \div StatedRawSize(arr.T)
    IN  /\ iter.offset <= n
        /\ \A j \in 1 .. Len(ilog.rets) :
             /\ j <= n => ilog.rets[j].some /\ ilog.rets[j] = LazyGet(arr, j - 1)
             /\ j > n => ilog.rets[j] = NoElement
        /\ (ilog.again /\ RanToEnd(ilog.rets)) => Yielded(ilog.rets) = ilog.prev

\* a second iteration of a view of at least two elements, run past its end
C12_Witness ==
    /\ LazyLen(arr) >= 2
    /\ ilog.again /\ Len(ilog.prev) = LazyLen(arr)
    /\ Len(ilog.rets) = LazyLen(arr) + 2
    /\ ~ilog.rets[LazyLen(arr) + 1].some /\ ~ilog.rets[LazyLen(arr) + 2].some

----------------------------------------------------------------------------
(* Big-endian decoding of consecutive reads *)

\* sum of b[i] * 256^(N-1-i) over the N bytes of b (N <= 2 keeps it in range)
RECURSIVE BigEndianSum(_)
BigEndianSum(b) ==
    IF b = <<>> THEN 0
    ELSE Head(b) * 256 ^ (Len(b) - 1) + BigEndianSum(Tail(b))

\* an unsigned N-bit value reinterpreted as two's complement
TwosComplement(x, bits) == IF x < 2 ^ (bits - 1) THEN x ELSE x - 2 ^ bits

\* the big-endian value of a 4-byte window, as its two 16-bit halves
BigEndianHalves(b) ==
    [hi |-> BigEndianSum(SubSeq(b, 1, 2)), lo |-> BigEndianSum(SubSeq(b, 3, 4))]

\* the value the specification states for window b read as T
StatedValue(T, b) ==
    CASE T = "u8"  -> BigEndianSum(b)
      [] T = "i8"  -> TwosComplement(BigEndianSum(b), 8)
      [] T = "u16" -> BigEndianSum(b)
      [] T = "i16" -> TwosComplement(BigEndianSum(b), 16)
      [] T \in {"u32", "Offset32"} -> BigEndianHalves(b)
      [] T = "OptOffset32" ->
           IF BigEndianHalves(b) = [hi |-> 0, lo |-> 0]
           THEN [some |-> FALSE, off |-> BigEndianHalves(b)]
           ELSE [some |-> TRUE, off |-> BigEndianHalves(b)]

\* a successful read decodes the window [cursor, cursor + raw size) big-endian
SuccessfulReadIsBigEndian ==
    (last.op = "read" /\ last.kind = "ok") =>
        /\ last.lo = last.pre /\ last.hi = offset
        /\ last.hi - last.lo = StatedRawSize(last.T)
        /\ last.hi <= Len(data)
        /\ last.val = StatedValue(last.T, SubSeq(data, last.lo + 1, last.hi))

\* a successful read directly after a successful read starts where that ended
NextReadStartsWherePreviousEnded ==
    (last.op = "read" /\ last.kind = "ok" /\ last'.op = "read" /\ last'.kind = "ok") =>
        last'.lo = last.hi /\ last'.lo < last'.hi

\* at_end() is true exactly when the cursor is at the end of the buffer
AtEndTellsCursorAtEnd ==
    last.op = "at_end" => last.val = (offset = Len(data))

\* C13: consecutive successful reads decode successive, non-overlapping
\* windows of the buffer starting at the cursor, each as a big-endian integer
\* (signed kinds as two's complement); [0x00,0x2A,0x01,0x00] read as two u16
\* yields 42 then 256, the cursor ends at 4 and at_end() is true.
C13_ConsecutiveReadsBigEndian ==
    /\ [](SuccessfulReadIsBigEndian /\ AtEndTellsCursorAtEnd)
    /\ [][NextReadStartsWherePreviousEnded]_vars

\* the second u16 of the example buffer, read from the window the first left
C13_Witness ==
    /\ data = <<0, 42, 1, 0>>
    /\ last.op = "read" /\ last.T = "u16" /\ last.kind = "ok"
    /\ last.lo = 2 /\ last.hi = 4 /\ last.val = 256
    /\ offset = 4 /\ offset = Len(data)

----------------------------------------------------------------------------
(* Skipping *)

\* C14 as stated: skip::<T>() advances the cursor by raw_size::<T>() and
\* skip_len(n) advances it by the element count n times the raw size of the
\* element type, whichever supported type that is; neither ever fails.
C14_SkipLenCountsElements ==
    /\ last.op = "skip" => offset - last.pre = StatedRawSize(last.T) /\ last.kind = "ok"
    /\ last.op = "skip_len" =>
         /\ \A T \in Types : offset - last.pre = last.count * StatedRawSize(T)
         /\ last.kind = "ok"

\* C14 amended: skip::<T>() advances the cursor by raw_size::<T>() and
\* skip_len(n) advances it by exactly n bytes, no element type being involved;
\* neither ever fails, wherever the cursor is.
C14_SkipLenCountsBytes ==
    /\ last.op = "skip" => offset - last.pre = StatedRawSize(last.T) /\ last.kind = "ok"
    /\ last.op = "skip_len" => offset - last.pre = last.count /\ last.kind = "ok"

\* skip_len(3) from a cursor already at the end of a non-empty buffer
C14_Witness ==
    /\ last.op = "skip_len" /\ last.count = 3
    /\ Len(data) > 0 /\ last.pre = Len(data)
    /\ offset = last.pre + 3

----------------------------------------------------------------------------
(* The static read and the cursor read *)

\* what a read returns to its caller: the value, or the failure and its payload
Outcome(l) == [kind |-> l.kind, val |-> l.val, end |-> l.end, len |-> l.len]

\* read_at::<T>(buffer, offset) directly followed by read::<T>() of a reader
\* whose cursor is at that offset: the read returns what read_at returned
ReadAtThenRead ==
    (last.op = "read_at" /\ last.start = offset /\ last'.op = "read" /\ last'.T = last.T) =>
        Outcome(last') = Outcome(last)

\* read::<T>() directly followed by read_at::<T>() at the offset the read
\* started from: read_at returns what the read returned
ReadThenReadAt ==
    (last.op = "read" /\ last'.op = "read_at" /\ last'.T = last.T /\ last'.start = last.pre) =>
        Outcome(last') = Outcome(last)

\* read_at leaves the reader and the buffer as they were
ReadAtKeepsNoState ==
    last'.op = "read_at" => offset' = offset /\ data' = data

\* C15: for every buffer, offset and type T, read_at::<T>(buffer, offset)
\* returns exactly the outcome (value, or bound failure with the same
\* (required_end, actual_length) payload) that a Stream over the same buffer
\* returns from read::<T>() with its cursor at offset; it keeps no state.
C15_ReadAtIsReadAtOffset ==
    [][ReadAtThenRead /\ ReadThenReadAt /\ ReadAtKeepsNoState]_vars

\* a 16-bit read one byte before the end of the buffer, failing with
\* (cursor + 2, len), where read_at at that offset fails as well
C15_Witness ==
    /\ last.op = "read" /\ last.T = "u16" /\ last.kind = "bound"
    /\ last.pre + 1 = Len(data)
    /\ last.end = last.pre + 2 /\ last.len = Len(data)
    /\ ReadAtGet(data, last.pre, last.pre + 2).kind = "bound"

----------------------------------------------------------------------------
(* Properties of the trusted reader *)

\* C16: over a window large enough for it, each SafeStream read decodes
\* exactly the bytes at [cursor, cursor + size), cursor being the sum of the
\* sizes of all preceding operations (raw_size::<T>() for skip and read, 3 for
\* read_u24), and then advances the cursor by size; read_u24() after a skip or
\* read returns the three bytes at the cursor, not the first three of the window.
C16_TrustedReadsDecodeAtCursor ==
    LET size == IF slast.op = "read_u24" THEN 3 ELSE StatedRawSize(slast.T)
        w    == SubSeq(safe.data, slast.sum + 1, slast.sum + size)
    IN  (slast.op \in {"skip", "read", "read_u24"} /\ slast.sum + size <= Len(safe.data)) =>
            /\ ~slast.panic
            /\ slast.pre = slast.sum
            /\ safe.offset = slast.sum + size
            /\ slast.op = "read" => slast.val = StatedValue(slast.T, w)
            /\ slast.op = "read_u24" => slast.val = BigEndianSum(w)

----------------------------------------------------------------------------
(* Deferred verification of skips *)

\* skip and skip_len never fail
SkipsNeverFail ==
    last.op \in {"skip", "skip_len"} => last.kind = "ok"

\* a read, read_bytes, read_array or tail with the cursor beyond the end of
\* the buffer fails with a bound error and returns no bytes
ReadBeyondEndFails ==
    (last.op \in {"read", "read_bytes", "read_array", "tail"} /\ last.pre > Len(data)) =>
        /\ last.kind = "bound"
        /\ last.val = <<>>
        /\ last.lo = last.hi

\* a cursor beyond the end stays beyond it until jump_to_end, which puts it
\* at the end
BeyondEndUntilJumpToEnd ==
    offset > Len(data) =>
        IF last'.op = "jump_to_end" THEN offset' = Len(data)
        ELSE offset' > Len(data)

\* C17: skip and skip_len never fail, and once skips have carried the cursor
\* beyond the buffer end, every subsequent read::<T>(), read_bytes(n) (n = 0
\* included), read_array and tail() fails with a bound error and returns no
\* bytes, until jump_to_end() is called.
C17_SkipsDeferVerification ==
    /\ [](SkipsNeverFail /\ ReadBeyondEndFails)
    /\ [][BeyondEndUntilJumpToEnd]_vars

\* read_bytes(0) failing with the cursor beyond the end of the buffer
C17_Witness ==
    /\ last.op = "read_bytes" /\ last.n = 0
    /\ last.pre > Len(data)
    /\ last.kind = "bound" /\ last.end = last.pre /\ last.len = Len(data)

----------------------------------------------------------------------------
(* Properties of the search on any array, ordered or not *)

\* C18: for every Lazy Array, ordered or not, and every ordering function,
\* an element returned by binary_search_by is one for which the ordering
\* function reports Equal (and is the element of the array at the candidate
\* index); a match may be missed, a non-matching element is never returned.
C18_SearchReturnsOnlyEqual ==
    (alast.op = "binary_search_by" /\ alast.ret.some) =>
        /\ Cmp(alast.ret.val \div alast.k, alast.tgt) = "Equal"
        /\ alast.ret.idx \in ArrIndices
        /\ alast.ret.val = LazyGet(arr, alast.ret.idx).val

\* a match returned from an array that is not ordered by the key
C18_Witness ==
    /\ alast.op = "binary_search_by" /\ alast.ret.some
    /\ ~NonDecreasing
    /\ LazyLen(arr) >= 3

\* smallest e with 2^e >= n, for n >= 1
RECURSIVE CeilLog2From(_, _)
CeilLog2From(n, e) == IF 2 ^ e >= n THEN e ELSE CeilLog2From(n, e + 1)
CeilLog2(n) == CeilLog2From(n, 0)

\* C19: in binary_search_by over an array of length n >= 1, every probed
\* index mid = base + size/2 and the final candidate index base are within
\* 0 .. n - 1 at every iteration (at() never indexes out of range), size
\* strictly decreases each iteration, and the loop ends with size = 1 after
\* at most ceil(log2 n) probes; for n = 0 it returns absent without probing.
C19_SearchProbesInRange ==
    alast.op = "binary_search_by" =>
        LET n  == Len(arr.data) \div StatedRawSize(arr.T)
            ps == alast.ret.probes
        IN  /\ n = 0 => ~alast.ret.some /\ ps = <<>>
            /\ n >= 1 =>
                 /\ ~alast.ret.panic
                 /\ \A j \in 1 .. Len(ps) :
                      /\ ps[j].mid = ps[j].base + ps[j].size \div 2
                      /\ 0 <= ps[j].base /\ ps[j].base < n
                      /\ 0 <= ps[j].mid /\ ps[j].mid < n
                      /\ ps[j].size > 1
                      /\ IF j < Len(ps) THEN ps[j + 1].size < ps[j].size
                         ELSE alast.ret.size < ps[j].size
                 /\ alast.ret.size = 1
                 /\ 0 <= alast.ret.idx /\ alast.ret.idx < n
                 /\ Len(ps) <= CeilLog2(n)

\* a search of five elements that took ceil(log2 5) = 3 probes and ended on
\* the last element
C19_Witness ==
    /\ alast.op = "binary_search_by"
    /\ LazyLen(arr) = 5
    /\ Len(alast.ret.probes) = 3
    /\ alast.ret.size = 1 /\ alast.ret.idx = 4

----------------------------------------------------------------------------
(* Construction of trusted readers inside the core *)

\* the window [lo, hi) a trusted reader was constructed over is exactly
\* size bytes, starts at `start` and lies inside a buffer of len bytes
ExactWindowInside(lo, hi, start, size, len) ==
    lo = start /\ hi - lo = size /\ 0 <= lo /\ hi <= len

\* Stream::read, read_f2_14, try_read, read_at: a trusted reader is built only
\* after the bound check passed, over exactly the bytes asked for
StreamBuildsOverVerifiedWindow ==
    last.op \in {"read", "read_f2_14", "try_read", "read_at"} =>
        /\ last.kind # "panic"
        /\ last.kind = "bound" => last.lo = last.hi /\ last.start + StatedRequest > Len(data)
        /\ last.kind # "bound" =>
             ExactWindowInside(last.lo, last.hi, last.start, StatedRequest, Len(data))

\* an element decoded for index i of arr, from a window [lo, hi)
ElementWindowInside(i, lo, hi) ==
    ExactWindowInside(lo, hi, i * StatedRawSize(arr.T), StatedRawSize(arr.T), Len(arr.data))

\* LazyArray::get and last, and binary_search_by (every probe and the final
\* candidate): each decoded element has its exact window inside the view
ArrayBuildsOverVerifiedWindow ==
    /\ alast.op \in {"get", "last"} =>
         /\ ~alast.ret.panic
         /\ alast.ret.some =>
              ElementWindowInside(IF alast.op = "get" THEN alast.index ELSE LazyLen(arr) - 1,
                                  alast.ret.lo, alast.ret.hi)
    /\ alast.op = "binary_search_by" =>
         /\ ~alast.ret.panic
         /\ \A j \in 1 .. Len(alast.ret.probes) :
              ElementWindowInside(alast.ret.probes[j].mid,
                                  alast.ret.probes[j].lo, alast.ret.probes[j].hi)
         /\ Len(arr.data) >= StatedRawSize(arr.T) =>
              ElementWindowInside(alast.ret.idx, alast.ret.lo, alast.ret.hi)

\* iteration: every element yielded was decoded from its exact window
IterationBuildsOverVerifiedWindow ==
    \A j \in 1 .. Len(ilog.rets) :
        /\ ~ilog.rets[j].panic
        /\ ilog.rets[j].some => ElementWindowInside(j - 1, ilog.rets[j].lo, ilog.rets[j].hi)

\* C20: every SafeStream the core constructs internally - in Stream::read,
\* try_read, read_at, LazyArray::get, iteration and binary_search_by - is
\* constructed over a window of exactly raw_size::<T>() bytes that lies
\* entirely inside the source buffer and was bound-verified beforehand; none
\* is constructed over an unverified or shorter window.
C20_TrustedReadersOverVerifiedWindows ==
    /\ StreamBuildsOverVerifiedWindow
    /\ ArrayBuildsOverVerifiedWindow
    /\ IterationBuildsOverVerifiedWindow

\* the last element of a view with a trailing partial element, decoded from
\* the last complete window
C20_Witness ==
    /\ alast.op = "get" /\ alast.ret.some
    /\ arr.T = "u16" /\ Len(arr.data) = 5
    /\ alast.index = 1 /\ alast.ret.lo = 2 /\ alast.ret.hi = 4

====
